---- MODULE Spec2Model ----
(***************************************************************************)
(* Model of deps_on_demand: the shim runtime (_ShimRuntime,                *)
(* _ShimNamespace, _MissingTypeMeta), the resolution facade                *)
(* (LazyModuleProxy) and the summary-graph builder (build_summary).        *)
(***************************************************************************)
EXTENDS Integers, Sequences, FiniteSets, TLC

(***************************************************************************)
(* Bounds of the model.                                                    *)
(***************************************************************************)
\* largest number of nodes of a SummaryGraph handed to the facade
MaxNodes == 2
\* largest number of member names (children and eager) recorded in one graph
MaxEntries == 2

\* largest number of objects of the hierarchy build_summary walks
MaxObjs == 2
\* largest number of members (name, value) the objects of a hierarchy hold in all
MaxMembers == 2

\* largest max_depth given to the bounded-depth build_summary
MaxDepth == 2

(***************************************************************************)
(* Names and values.                                                       *)
(***************************************************************************)
\* the module identifier the facade guards
ModName == "torch"

\* member names a SummaryGraph node may record; "__dir__" is a name that the
\* proxy classes define themselves
GraphNames == {"a", "__dir__"}

\* attribute names a caller may ask for; "b" is recorded in no graph
Names == GraphNames \cup {"b"}

Kinds == {"ns", "type", "fn"}

NoRef == -1

\* a Python value or exception as the caller sees it
Val(tag, ref, txt) == [tag |-> tag, ref |-> ref, txt |-> txt]

None == Val("None", NoRef, "")
RealModule == Val("real_module", NoRef, ModName)
ProxyVal(r) == Val("proxy", r, "")

\* str(node_id): the decimal string of a node id
Digits == <<"0", "1", "2", "3", "4", "5", "6", "7", "8", "9">>

RECURSIVE Str(_)
Str(n) == IF n < 10 THEN Digits[n + 1] ELSE Str(n \div 10) \o Digits[(n % 10) + 1]

(***************************************************************************)
(* The SummaryGraphs handed to the facade: the interchange format, nodes   *)
(* keyed by decimal strings, eager names disjoint from the children keys,  *)
(* every child id a node, every node reachable from the root.              *)
(***************************************************************************)
ChildMaps(n) == UNION {[D -> 0 .. n - 1] : D \in SUBSET GraphNames}

NodeShapes(n) ==
    {[kind |-> k, children |-> c, eager |-> e] :
        k \in Kinds, c \in ChildMaps(n), e \in SUBSET GraphNames}

SidSet(n) == {Str(i) : i \in 0 .. n - 1}

RECURSIVE ReachFrom(_, _)
ReachFrom(nodes, seen) ==
    LET more == {nodes[Str(i)].children[x] : <<i, x>> \in
                    {<<j, y>> \in seen \X GraphNames : y \in DOMAIN nodes[Str(j)].children}}
    IN IF more \subseteq seen THEN seen ELSE ReachFrom(nodes, seen \cup more)

RECURSIVE Entries(_, _)
Entries(nodes, sids) ==
    IF sids = {} THEN 0
    ELSE LET s == CHOOSE x \in sids : TRUE
         IN Cardinality(DOMAIN nodes[s].children) + Cardinality(nodes[s].eager)
                + Entries(nodes, sids \ {s})

WellFormed(g, n) ==
    /\ \A s \in DOMAIN g.nodes : g.nodes[s].eager \cap DOMAIN g.nodes[s].children = {}
    /\ Entries(g.nodes, DOMAIN g.nodes) <= MaxEntries
    /\ ReachFrom(g.nodes, {g.root}) = 0 .. n - 1

Graphs ==
    UNION {{g \in [root : {0}, nodes : [SidSet(n) -> NodeShapes(n)]] : WellFormed(g, n)} :
              n \in 1 .. MaxNodes}

VARIABLES
    summary,        \* LazyModuleProxy._summary
    loaded,         \* LazyModuleProxy._loaded
    obj,            \* LazyModuleProxy._obj
    rt,             \* TRUE once _load has constructed a _ShimRuntime
    memo,           \* _ShimRuntime._memo : sid -> proxy reference (NoRef: no entry)
    objs,           \* the proxy objects constructed so far; a reference is an index
    result,         \* what the last operation returned or raised
    heap,           \* the live objects build_summary walks; heap[1] is root_obj
    include_private,\* build_summary's include_private argument
    bs,             \* build_summary's locals and its position
    tf              \* the facade that carries explicit child module paths

fvars == <<summary, loaded, obj, rt, memo, objs, result>>

bvars == <<heap, include_private, bs>>

vars == <<fvars, bvars, tf>>

(***************************************************************************)
(* Errors.                                                                 *)
(***************************************************************************)
\* _missing_dep_error(modname): the MissingDependencyError naming modname
missing_dep_error(modname) == Val("MissingDependencyError", NoRef, modname)

AttributeError(name) == Val("AttributeError", NoRef, name)

TypeErrorNotCallable == Val("TypeError", NoRef, "not callable")

\* a function's outcome: what it returns or raises, and the runtime state it leaves
Outcome(out, val, m, o) == [out |-> out, val |-> val, memo |-> m, objs |-> o]

(***************************************************************************)
(* _ShimRuntime.get                                                        *)
(***************************************************************************)
NewObj(cls, sid, ns) == [cls |-> cls, sid |-> sid, ns |-> ns]

\* get(node_id) on memo table m and object store o; the reference returned and
\* the memo table and store afterwards
ShimRuntime_get(m, o, node_id) ==
    LET sid == Str(node_id)
        r == Len(o) + 1
    IN  IF m[sid] # NoRef
        THEN [ref |-> m[sid], memo |-> m, objs |-> o]
        ELSE LET kind == summary.nodes[sid].kind
             IN CASE kind = "fn" ->
                      [ref |-> r, memo |-> [m EXCEPT ![sid] = r],
                       objs |-> Append(o, NewObj("fn", sid, NoRef))]
                  [] kind = "type" ->
                      \* T is memoized; its _shim_ns namespace is a second object
                      [ref |-> r, memo |-> [m EXCEPT ![sid] = r],
                       objs |-> Append(Append(o, NewObj("type", sid, r + 1)),
                                       NewObj("ns", sid, NoRef))]
                  [] kind = "ns" ->
                      [ref |-> r, memo |-> [m EXCEPT ![sid] = r],
                       objs |-> Append(o, NewObj("ns", sid, NoRef))]

(***************************************************************************)
(* Attribute lookup.  Python calls a class's __getattr__ only for a name   *)
(* that ordinary lookup on the object and its class does not find.         *)
(***************************************************************************)
\* names ordinary lookup finds on a _ShimNamespace instance (__dir__ is a method)
ShimNamespaceAttrs == {"__dir__"}

\* names ordinary lookup finds on a placeholder type T (inherited from object)
MissingTypeAttrs == {"__dir__"}

\* names ordinary lookup finds on the _missing_fn function object
MissingFnAttrs == {"__dir__"}

\* names ordinary lookup finds on a LazyModuleProxy instance (__dir__ is a method)
LazyModuleProxyAttrs == {"__dir__"}

\* the attributes the real module has
RealAttrs == {"a", "__dir__"}

OwnAttr(r, name) == Val("own_attr", r, name)

RealAttr(name) == Val("real_attr", NoRef, name)

ShimNamespace_getattr_no_eager_check(m, o, sid, name) ==
    LET node == summary.nodes[sid]
    IN  IF name \in DOMAIN node.children
        THEN LET g == ShimRuntime_get(m, o, node.children[name])
             IN Outcome("return", ProxyVal(g.ref), g.memo, g.objs)
        ELSE Outcome("raise", AttributeError(name), m, o)

\* _ShimNamespace.__getattr__(name) of the namespace over node sid
ShimNamespace_getattr(m, o, sid, name) ==
    LET node == summary.nodes[sid]
    IN  IF name \in node.eager
        THEN Outcome("raise", missing_dep_error(ModName), m, o)
        ELSE IF name \in DOMAIN node.children
             THEN LET g == ShimRuntime_get(m, o, node.children[name])
                  IN Outcome("return", ProxyVal(g.ref), g.memo, g.objs)
             ELSE Outcome("raise", AttributeError(name), m, o)

\* getattr(T, name) on a placeholder type: T's class is _MissingTypeMeta, which
\* defines no __getattr__; the __getattr__ stored on T serves instances of T
MissingType_getattr(m, o, r, name) ==
    IF name \in MissingTypeAttrs
    THEN Outcome("return", OwnAttr(r, name), m, o)
    ELSE Outcome("raise", AttributeError(name), m, o)

\* getattr(p, name) for the proxy object with reference r
Proxy_getattr(m, o, r, name) ==
    CASE o[r].cls = "ns" ->
           IF name \in ShimNamespaceAttrs
           THEN Outcome("return", OwnAttr(r, name), m, o)
           ELSE ShimNamespace_getattr(m, o, o[r].sid, name)
      [] o[r].cls = "type" -> MissingType_getattr(m, o, r, name)
      [] o[r].cls = "fn" ->
           IF name \in MissingFnAttrs
           THEN Outcome("return", OwnAttr(r, name), m, o)
           ELSE Outcome("raise", AttributeError(name), m, o)

\* getattr(real module, name)
Real_getattr(m, o, name) ==
    IF name \in RealAttrs
    THEN Outcome("return", RealAttr(name), m, o)
    ELSE Outcome("raise", AttributeError(name), m, o)

Getattr_returns_object(m, o, v, name) == Outcome("return", v, m, o)

\* getattr(v, name) for the facade's resolved object v
Getattr(m, o, v, name) ==
    IF v.tag = "proxy" THEN Proxy_getattr(m, o, v.ref, name) ELSE Real_getattr(m, o, name)

(***************************************************************************)
(* Calls.                                                                  *)
(***************************************************************************)
\* the argument lists a caller passes: none, or positional and keyword ones
ArgLists == {<< >>, <<"1", "k=2">>}

Raise(v) == [out |-> "raise", val |-> v]

Return(v) == [out |-> "return", val |-> v]

missing_fn_call_names_the_function(args) == Raise(missing_dep_error("_missing_fn"))

\* _missing_fn(*args, **kwargs)
missing_fn_call(args) == Raise(missing_dep_error(ModName))

MissingTypeMeta_call_makes_instance(args) == Return(Val("instance", NoRef, ""))

\* _MissingTypeMeta.__call__(cls, *args, **kwargs); __shim_modname__ was set to
\* the runtime's module identifier
MissingTypeMeta_call(args) == Raise(missing_dep_error(ModName))

\* p(*args, **kwargs) for the proxy object with reference r; a _ShimNamespace
\* defines no __call__
Proxy_call(o, r, args) ==
    CASE o[r].cls = "fn" -> missing_fn_call(args)
      [] o[r].cls = "type" -> MissingTypeMeta_call(args)
      [] o[r].cls = "ns" -> Raise(TypeErrorNotCallable)

(***************************************************************************)
(* importlib.import_module(modname): what the host's loader may do.        *)
(***************************************************************************)
\* found: the module loads; absent: the guarded module itself is not installed;
\* dep_absent: the module is installed and its own initialization imports a
\* module that is not; import_error, init_error: it is installed and its
\* initialization raises ImportError, or something else
ImportOutcomes == {"found", "absent", "dep_absent", "import_error", "init_error"}

ImportRaises(ic) ==
    CASE ic = "absent" -> Val("ModuleNotFoundError", NoRef, ModName)
      [] ic = "dep_absent" -> Val("ModuleNotFoundError", NoRef, "numpy")
      [] ic = "import_error" -> Val("ImportError", NoRef, ModName)
      [] ic = "init_error" -> Val("ValueError", NoRef, ModName)

CaughtByLoad_nothing(exc) == FALSE

\* the except clause of _load
CaughtByLoad(exc) == exc.tag = "ModuleNotFoundError"

(***************************************************************************)
(* State machine.                                                          *)
(***************************************************************************)
\* op: the operation; on: the proxy it was applied to; name, args: its inputs;
\* imp: what import_module did during it ("none": not called); out, val: what it
\* returned or raised; names: the names a listing returned
Res(op, on, name, imp, out, val, names) ==
    [op |-> op, on |-> on, name |-> name, args |-> << >>, imp |-> imp, out |-> out,
     val |-> val, names |-> names]

AlreadyLoaded_never == FALSE

\* the first statement of _load: a resolved facade returns _obj
AlreadyLoaded == loaded

\* build_summary's locals with the id counter starting at one
BuildEntry_ids_from_one(h, variant, max_depth) ==
    [pc |-> "start",
     variant |-> variant,
     max_depth |-> max_depth,
     stack |-> << >>,
     objid_to_nodeid |-> [o \in DOMAIN h |-> NoRef],
     nodes |-> << >>,
     expanded |-> {},
     nid_to_obj |-> {},
     next_id |-> 1,
     to_expand |-> << >>,
     pushed |-> << >>,
     enumerated |-> << >>,
     root_id |-> NoRef,
     out |-> << >>]

\* build_summary's locals before its first statement; variant tells the
\* worklist build_summary of cli.py from the bounded-depth one of __init__.py,
\* whose walk calls are the frames of stack
BuildEntry(h, variant, max_depth) ==
    [pc |-> "start",
     variant |-> variant,
     max_depth |-> max_depth,
     stack |-> << >>,
     objid_to_nodeid |-> [o \in DOMAIN h |-> NoRef],
     nodes |-> << >>,
     expanded |-> {},
     nid_to_obj |-> {},
     next_id |-> 0,
     to_expand |-> << >>,
     pushed |-> << >>,
     enumerated |-> << >>,
     root_id |-> NoRef,
     out |-> << >>]

(***************************************************************************)
(* The explicit child modules of a guarded module (spec section 4.5): the  *)
(* payload's "explicit_child_modules" are dotted paths below the module;   *)
(* a path is the sequence of its segments after the module's own name.     *)
(***************************************************************************)
ChildPaths == {<<"sub">>, <<"sub", "deep">>, <<"deep", "sub">>}

\* the names an attribute chain is built from; "x" is on no explicit path
TrieNames == {"sub", "deep", "x"}

Prefixes(path) == {SubSeq(path, 1, k) : k \in 1 .. Len(path)}

\* the Path Trie's nodes, each named by the segments that lead to it
TrieNodes(paths) == UNION {Prefixes(path) : path \in paths}

\* a trie node is tagged when it stands for one of the concrete paths
Tagged(paths, chain) == chain \in paths

\* what the machine has of the dependency: all of it, none of it, or the
\* module without child modules that can be imported
Environments == {"present", "absent", "child_broken"}

\* importing a.b.c imports a.b on the way: what a load of `path` makes members
LoadedBy(forced) == UNION {Prefixes(path) : path \in forced}

\* the attribute chain looked up on the real module: a child module is a
\* member only once it was imported, "x" is a member of nothing
RealChain(paths, forced, chain) ==
    IF \E k \in 1 .. Len(chain) : chain[k] = "x"
    THEN "AttributeError"
    ELSE IF \E c \in Prefixes(chain) : c \in TrieNodes(paths) /\ c \notin LoadedBy(forced)
         THEN "AttributeError"
         ELSE "value"

TrieFacade(paths, env) ==
    [paths |-> paths,
     env |-> env,
     state |-> "Unresolved",
     log |-> << >>,
     held |-> {},
     last |-> [op |-> "init", chain |-> << >>, out |-> "none"]]

\* no facade with explicit child modules is in use
NoTrieFacade == TrieFacade({}, "absent")

\* no build is running beside the facade
NoHeap == <<[pykind |-> "module", members |-> << >>]>>

Init ==
    /\ heap = NoHeap
    /\ include_private = FALSE
    /\ bs = [BuildEntry(NoHeap, "iterative", 0) EXCEPT !.pc = "idle"]
    /\ tf = NoTrieFacade
    /\ summary \in Graphs
    /\ loaded = FALSE
    /\ obj = None
    /\ rt = FALSE
    /\ memo = [s \in DOMAIN summary.nodes |-> NoRef]
    /\ objs = << >>
    /\ result = Res("init", NoRef, "", "none", "return", None, {})

\* a _load that marks the facade loaded before it imports
Load_propagates_marked_loaded(name, ic) ==
    /\ result' = Res("facade_getattr", NoRef, name, ic, "raise", ImportRaises(ic), {})
    /\ loaded' = TRUE
    /\ UNCHANGED <<obj, rt, memo, objs>>

\* _load when import_module raises what its except clause does not catch:
\* the exception leaves _load before any of its assignments
Load_propagates(name, ic) ==
    /\ result' = Res("facade_getattr", NoRef, name, ic, "raise", ImportRaises(ic), {})
    /\ UNCHANGED <<loaded, obj, rt, memo, objs>>

\* LazyModuleProxy.__getattr__ reached through facade.name, _load included
FacadeGetattr(name) ==
    IF name \in LazyModuleProxyAttrs
    THEN /\ result' = Res("facade_getattr", NoRef, name, "none", "return",
                          OwnAttr(NoRef, name), {})
         /\ UNCHANGED <<summary, loaded, obj, rt, memo, objs, bvars, tf>>
    ELSE IF AlreadyLoaded
    THEN LET g == Getattr(memo, objs, obj, name)
         IN /\ result' = Res("facade_getattr", NoRef, name, "none", g.out, g.val, {})
            /\ memo' = g.memo
            /\ objs' = g.objs
            /\ UNCHANGED <<summary, loaded, obj, rt, bvars, tf>>
    ELSE /\ \E ic \in ImportOutcomes :
              IF ic = "found"
              THEN LET g == Getattr(memo, objs, RealModule, name)
                   IN /\ obj' = RealModule
                      /\ loaded' = TRUE
                      /\ result' = Res("facade_getattr", NoRef, name, ic, g.out, g.val, {})
                      /\ UNCHANGED <<rt, memo, objs>>
              ELSE IF CaughtByLoad(ImportRaises(ic))
              THEN LET root == ShimRuntime_get(memo, objs, summary.root)
                       g == Getattr(root.memo, root.objs, ProxyVal(root.ref), name)
                   IN /\ rt' = TRUE
                      /\ obj' = ProxyVal(root.ref)
                      /\ loaded' = TRUE
                      /\ memo' = g.memo
                      /\ objs' = g.objs
                      /\ result' = Res("facade_getattr", NoRef, name, ic, g.out, g.val, {})
              ELSE Load_propagates(name, ic)
         /\ UNCHANGED <<summary, bvars, tf>>

\* a listing of the children keys alone
ShimNamespace_dir_children_only(sid) == DOMAIN summary.nodes[sid].children

\* _ShimNamespace.__dir__ of the namespace over node sid
ShimNamespace_dir(sid) ==
    DOMAIN summary.nodes[sid].children \cup summary.nodes[sid].eager

\* dir(v) for the facade's resolved object v
Dir(o, v) ==
    IF v.tag = "proxy"
    THEN CASE o[v.ref].cls = "ns" -> ShimNamespace_dir(o[v.ref].sid)
           [] o[v.ref].cls = "type" -> MissingTypeAttrs
           [] o[v.ref].cls = "fn" -> MissingFnAttrs
    ELSE RealAttrs

\* LazyModuleProxy.__dir__
FacadeDir ==
    /\ result' = Res("facade_dir", NoRef, "", "none", "return", Val("list", NoRef, ""),
                     IF loaded /\ obj # None
                     THEN Dir(objs, obj)
                     ELSE ShimNamespace_dir(Str(summary.root)))
    /\ UNCHANGED <<summary, loaded, obj, rt, memo, objs, bvars, tf>>

\* a __repr__ that loads the module to describe it
FacadeRepr_loads ==
    /\ loaded' = TRUE
    /\ obj' = RealModule
    /\ result' = Res("facade_repr", NoRef, "", "found", "return",
                     Val("str", RealModule.ref, RealModule.tag), {})
    /\ UNCHANGED <<summary, rt, memo, objs, bvars, tf>>

\* LazyModuleProxy.__repr__
FacadeRepr ==
    /\ result' = Res("facade_repr", NoRef, "", "none", "return",
                     IF ~loaded THEN Val("str", NoRef, "LazyModuleProxy")
                     ELSE Val("str", obj.ref, obj.tag), {})
    /\ UNCHANGED <<summary, loaded, obj, rt, memo, objs, bvars, tf>>

\* the proxies a caller can hold: the ones get has returned (a placeholder
\* type's private _shim_ns namespace is not handed out)
Held == {memo[s] : s \in DOMAIN memo} \ {NoRef}

\* p.name on a proxy object the caller holds
ProxyGetattr(r, name) ==
    /\ r \in Held
    /\ LET g == Proxy_getattr(memo, objs, r, name)
       IN /\ result' = Res("proxy_getattr", r, name, "none", g.out, g.val, {})
          /\ memo' = g.memo
          /\ objs' = g.objs
    /\ UNCHANGED <<summary, loaded, obj, rt, bvars, tf>>

\* p(*args, **kwargs) on a proxy object the caller holds
ProxyCall(r, args) ==
    /\ r \in Held
    /\ LET c == Proxy_call(objs, r, args)
       IN result' = [Res("proxy_call", r, "", "none", c.out, c.val, {})
                       EXCEPT !.args = args]
    /\ UNCHANGED <<summary, loaded, obj, rt, memo, objs, bvars, tf>>

\* rt.get(node_id) on the runtime the facade built
RuntimeGet(node_id) ==
    /\ rt
    /\ Str(node_id) \in DOMAIN summary.nodes
    /\ LET g == ShimRuntime_get(memo, objs, node_id)
       IN /\ result' = Res("rt_get", NoRef, Str(node_id), "none", "return",
                           ProxyVal(g.ref), {})
          /\ memo' = g.memo
          /\ objs' = g.objs
    /\ UNCHANGED <<summary, loaded, obj, rt, bvars, tf>>

Next ==
    \/ \E name \in Names : FacadeGetattr(name)
    \/ FacadeDir
    \/ FacadeRepr
    \/ \E r \in 1 .. 2 * MaxNodes, name \in Names : ProxyGetattr(r, name)
    \/ \E r \in 1 .. 2 * MaxNodes, args \in ArgLists : ProxyCall(r, args)
    \/ \E node_id \in 0 .. MaxNodes - 1 : RuntimeGet(node_id)

Spec == Init /\ [][Next]_vars

(***************************************************************************)
(* build_summary (cli.py): the hierarchy it walks.                         *)
(***************************************************************************)
\* keys of a __dict__: a public name, one the privacy convention hides, and
\* "1", which stands for the integer key 1 (no string key "1" is modelled)
MemberNames == {"a", "_p", "1"}

\* isinstance(name, str)
IsStr(name) == name # "1"

\* name.startswith("_")
StartsWithUnderscore(name) == name \in {"_p"}

\* what a live object is to inspect: a module, a user class, a class of
\* builtins (int), a function, a builtin (len), a method descriptor (str.join),
\* an instance with __call__, any other value, an object whose __class__
\* raises, and a module whose every attribute read raises (a lazy module
\* whose load fails)
PyKinds ==
    {"module", "class", "builtin_class", "function", "builtin",
     "method_descriptor", "callable_object", "value", "unclassifiable",
     "broken_module"}

\* the kinds whose __dict__ holds members in the hierarchies: what a class
\* holds is behind a mappingproxy and is never enumerated, and the functions
\* carry no attributes of their own
HeapKinds == {"module"}

\* the __dict__ contents an object may have: (name, object) pairs, names distinct
MemberLists(n) ==
    {<< >>}
    \cup {<<<<x, t>>>> : x \in MemberNames, t \in 1 .. n}
    \cup {<<<<x, t>>, <<y, u>>>> :
            <<x, y>> \in {p \in MemberNames \X MemberNames : p[1] # p[2]},
            <<t, u>> \in (1 .. n) \X (1 .. n)}

\* the objects of a hierarchy; the other kinds' members are never read
HeapObjects(n) ==
    {[pykind |-> k, members |-> ms] : k \in HeapKinds, ms \in MemberLists(n)}
    \cup {[pykind |-> k, members |-> << >>] : k \in PyKinds \ HeapKinds}

RECURSIVE MemberCount(_, _)
MemberCount(h, i) == IF i = 0 THEN 0 ELSE Len(h[i].members) + MemberCount(h, i - 1)

RECURSIVE Linked(_, _)
Linked(h, seen) ==
    LET more == {h[i].members[j][2] : <<i, j>> \in
                    {<<k, l>> \in seen \X (1 .. 2) : l <= Len(h[k].members)}}
    IN IF more \subseteq seen THEN seen ELSE Linked(h, seen \cup more)

\* where object k is first referenced, reading the objects' members in order
FirstRef(h, k) ==
    LET at == {i * (MaxMembers + 1) + j : <<i, j>> \in
                  {<<a, b>> \in (DOMAIN h) \X (1 .. 2) :
                      b <= Len(h[a].members) /\ h[a].members[b][2] = k}}
    IN CHOOSE p \in at : \A q \in at : p <= q

\* the hierarchies: every object linked to the root object, heap[1]; an
\* object's index is only its identity, so of the hierarchies that differ by
\* renumbering the objects other than the root, the one numbered in order of
\* first reference is taken
Heaps ==
    UNION {{h \in [1 .. n -> HeapObjects(n)] :
               /\ MemberCount(h, n) <= MaxMembers
               /\ Linked(h, {1}) = 1 .. n
               /\ \A k \in 3 .. n : FirstRef(h, k - 1) < FirstRef(h, k)}
           : n \in 1 .. MaxObjs}

(***************************************************************************)
(* build_summary (cli.py): its helpers.                                    *)
(***************************************************************************)
\* is_public_name letting every name through
is_public_name_every_name(name, incl) == TRUE

\* is_public_name
is_public_name(name, incl) == incl \/ ~StartsWithUnderscore(name)

\* getattr(obj, "__dict__", None) raises: getattr swallows AttributeError only
DictReadRaises(o) == o.pykind = "broken_module"

\* safe_iter_members: the items of __dict__ when it is a dict; a class's
\* __dict__ is a mappingproxy, not a dict, and a builtin has none
safe_iter_members(o) ==
    IF o.pykind \in {"module", "function", "callable_object"}
    THEN o.members
    ELSE << >>

\* the tests classify_value makes on v
isinstance_raises(o) == o.pykind = "unclassifiable"

ismodule(o) == o.pykind \in {"module", "broken_module"}

isclass(o) == o.pykind \in {"class", "builtin_class"}

\* getattr(v, "__module__", None) == "builtins"
module_is_builtins(o) == o.pykind \in {"builtin_class", "builtin"}

isfunction(o) == o.pykind = "function"

isbuiltin(o) == o.pykind = "builtin"

ismethoddescriptor(o) == o.pykind = "method_descriptor"

callable(o) ==
    o.pykind \in {"class", "builtin_class", "function", "builtin",
                  "method_descriptor", "callable_object"}

\* classify_value with the callable test moved to the front
classify_value_callable_first(o) ==
    IF isinstance_raises(o) THEN "Exception"
    ELSE IF callable(o) THEN "eager"
    ELSE IF ismodule(o) THEN "ns"
    ELSE "eager"

\* classify_value; "Exception" when a test on v raises
classify_value(o) ==
    IF isinstance_raises(o) THEN "Exception"
    ELSE IF ismodule(o) THEN "ns"
    ELSE IF isclass(o)
    THEN IF module_is_builtins(o) THEN "eager" ELSE "type"
    ELSE IF isfunction(o) \/ isbuiltin(o) \/ ismethoddescriptor(o) THEN "fn"
    ELSE IF callable(o) THEN "eager"
    ELSE "eager"

SumNode(kind) == [kind |-> kind, children |-> << >>, eager |-> {}]

\* get_node_id without the lookup of id(obj)
get_node_id_always_new(st, o, kind) ==
    [st |-> [st EXCEPT !.next_id = @ + 1,
                       !.objid_to_nodeid[o] = st.next_id,
                       !.nodes = Append(@, SumNode(kind))],
     nid |-> st.next_id]

\* get_node_id(obj, kind): the locals afterwards and the id
get_node_id(st, o, kind) ==
    IF st.objid_to_nodeid[o] # NoRef
    THEN [st |-> st, nid |-> st.objid_to_nodeid[o]]
    ELSE [st |-> [st EXCEPT !.next_id = @ + 1,
                            !.objid_to_nodeid[o] = st.next_id,
                            !.nodes = Append(@, SumNode(kind))],
          nid |-> st.next_id]

\* schedule without the nid_to_obj test
schedule_pushes_unexpanded(st, o) ==
    LET g == get_node_id(st, o, classify_value(heap[o]))
    IN IF g.nid \notin g.st.expanded
       THEN [st |-> [g.st EXCEPT !.nid_to_obj = @ \cup {<<g.nid, o>>},
                                 !.to_expand = Append(@, <<o, g.nid>>),
                                 !.pushed = Append(@, g.nid)],
             nid |-> g.nid]
       ELSE g

\* schedule(obj) for an obj that is not eager: the locals afterwards and the
\* id; pushed is the record of the ids appended to to_expand, and enumerated
\* the record of the ids whose members were read
schedule(st, o) ==
    LET g == get_node_id(st, o, classify_value(heap[o]))
        seen == {p[1] : p \in g.st.nid_to_obj}
    IN IF g.nid \notin g.st.expanded /\ g.nid \notin seen
       THEN [st |-> [g.st EXCEPT !.nid_to_obj = @ \cup {<<g.nid, o>>},
                                 !.to_expand = Append(@, <<o, g.nid>>),
                                 !.pushed = Append(@, g.nid)],
             nid |-> g.nid]
       ELSE g

\* the assignment left out
SetChild_forgets(children, name, child_id) == children

\* node.children[name] = child_id
SetChild(children, name, child_id) ==
    [x \in DOMAIN children \cup {name} |->
        IF x = name THEN child_id ELSE children[x]]

\* the for loop with the `continue` after node.eager.add(name) left out and
\* schedule taking any value
RECURSIVE ExpandMembers_no_continue(_, _, _, _)
ExpandMembers_no_continue(st, nid, ms, i) ==
    IF i > Len(ms) THEN st
    ELSE LET name == ms[i][1]
             val == ms[i][2]
         IN IF ~IsStr(name) \/ ~is_public_name(name, include_private)
            THEN ExpandMembers_no_continue(st, nid, ms, i + 1)
            ELSE LET e == IF classify_value(heap[val]) \in {"Exception", "eager"}
                          THEN [st EXCEPT !.nodes[nid + 1].eager = @ \cup {name}]
                          ELSE st
                     g == schedule(e, val)
                 IN ExpandMembers_no_continue(
                        [g.st EXCEPT !.nodes[nid + 1].children =
                                         SetChild(@, name, g.nid)],
                        nid, ms, i + 1)

\* the for loop over safe_iter_members(obj), from member i on, filling node nid
RECURSIVE ExpandMembers(_, _, _, _)
ExpandMembers(st, nid, ms, i) ==
    IF i > Len(ms) THEN st
    ELSE LET name == ms[i][1]
             val == ms[i][2]
         IN IF ~IsStr(name) \/ ~is_public_name(name, include_private)
            THEN ExpandMembers(st, nid, ms, i + 1)
            ELSE IF classify_value(heap[val]) \in {"Exception", "eager"}
            THEN ExpandMembers([st EXCEPT !.nodes[nid + 1].eager = @ \cup {name}],
                               nid, ms, i + 1)
            ELSE LET g == schedule(st, val)
                 IN ExpandMembers(
                        [g.st EXCEPT !.nodes[nid + 1].children =
                                         SetChild(@, name, g.nid)],
                        nid, ms, i + 1)

Pop_keeps(worklist) == worklist

\* what to_expand.pop() leaves
Pop(worklist) == SubSeq(worklist, 1, Len(worklist) - 1)

\* the names of S in sorted order
NameOrder == <<"_p", "a">>

Sorted(S) == SelectSeq(NameOrder, LAMBDA x : x \in S)

\* a conversion that leaves the node made last out of the table
Serialize_drops_last(st) ==
    [root |-> st.root_id,
     order |-> [i \in 1 .. st.next_id - 1 |-> Str(i - 1)],
     nodes |-> [sid \in {Str(i) : i \in 0 .. st.next_id - 2} |->
                  LET n == CHOOSE m \in 1 .. st.next_id : Str(m - 1) = sid
                  IN [kind |-> st.nodes[n].kind,
                      children |-> st.nodes[n].children,
                      keys |-> Sorted(DOMAIN st.nodes[n].children),
                      eager |-> Sorted(st.nodes[n].eager)]]]

\* the returned summary: nodes keyed by str(nid) in the order of nodes.items()
\* (order), children (with keys, the order of its keys) and eager sorted
Serialize(st) ==
    [root |-> st.root_id,
     order |-> [i \in 1 .. st.next_id |-> Str(i - 1)],
     nodes |-> [sid \in {Str(i) : i \in 0 .. st.next_id - 1} |->
                  LET n == CHOOSE m \in 1 .. st.next_id : Str(m - 1) = sid
                  IN [kind |-> st.nodes[n].kind,
                      children |-> st.nodes[n].children,
                      keys |-> Sorted(DOMAIN st.nodes[n].children),
                      eager |-> Sorted(st.nodes[n].eager)]]]

(***************************************************************************)
(* The summary as a JSON document (cli.py main) and back.  A dict is a      *)
(* mapping with the order of its keys; a document lists the entries of an  *)
(* object in the order they are written.                                   *)
(***************************************************************************)
\* an order of keys turned round
SortKeys_reverses(keys, order) == [i \in 1 .. Len(keys) |-> keys[Len(keys) + 1 - i]]

\* sort_keys=True: the keys in string order, given as the sequence order
SortKeys(keys, order) == SelectSeq(order, LAMBDA x : \E i \in 1 .. Len(keys) : keys[i] = x)

\* json.dump of one node
DumpNode(n) ==
    LET ks == SortKeys(n.keys, NameOrder)
    IN [children |-> [i \in 1 .. Len(ks) |-> <<ks[i], n.children[ks[i]]>>],
        eager |-> n.eager,
        kind |-> n.kind]

\* json.dump(..., sort_keys=True) of a summary; node keys are decimal strings
\* of fewer than ten nodes, whose string order is that of Digits
Dump(d) ==
    LET ks == SortKeys(d.order, Digits)
    IN [nodes |-> [i \in 1 .. Len(ks) |-> <<ks[i], DumpNode(d.nodes[ks[i]])>>],
        root |-> d.root]

\* json.load of one node: the dicts keep the document's order
LoadNode(dn) ==
    [kind |-> dn.kind,
     children |-> [x \in {dn.children[i][1] : i \in 1 .. Len(dn.children)} |->
                     LET i == CHOOSE j \in 1 .. Len(dn.children) : dn.children[j][1] = x
                     IN dn.children[i][2]],
     keys |-> [i \in 1 .. Len(dn.children) |-> dn.children[i][1]],
     eager |-> dn.eager]

\* json.load of a summary document
Load(doc) ==
    [root |-> doc.root,
     order |-> [i \in 1 .. Len(doc.nodes) |-> doc.nodes[i][1]],
     nodes |-> [sid \in {doc.nodes[i][1] : i \in 1 .. Len(doc.nodes)} |->
                  LET i == CHOOSE j \in 1 .. Len(doc.nodes) : doc.nodes[j][1] = sid
                  IN LoadNode(doc.nodes[i][2])]]

(***************************************************************************)
(* build_summary (cli.py): its steps.                                      *)
(***************************************************************************)
BuildInit ==
    /\ heap \in Heaps
    /\ include_private \in BOOLEAN
    /\ \/ bs = BuildEntry(heap, "iterative", 0)
       \/ \E d \in 0 .. MaxDepth : bs = BuildEntry(heap, "recursive", d)
    /\ tf = NoTrieFacade
    /\ summary = [root |-> 0, nodes |-> [s \in {"0"} |-> SumNode("ns")]]
    /\ loaded = FALSE
    /\ obj = None
    /\ rt = FALSE
    /\ memo = [s \in {"0"} |-> NoRef]
    /\ objs = << >>
    /\ result = Res("init", NoRef, "", "none", "return", None, {})

\* root_id = schedule(root_obj); schedule raises AssertionError for an eager
\* root, and classify_value's own exception goes through it
BuildStart ==
    /\ bs.pc = "start"
    /\ bs.variant = "iterative"
    /\ IF classify_value(heap[1]) \in {"Exception", "eager"}
       THEN bs' = [bs EXCEPT !.pc = "raised"]
       ELSE LET g == schedule(bs, 1)
            IN bs' = [g.st EXCEPT !.pc = "loop", !.root_id = g.nid]
    /\ UNCHANGED <<heap, include_private, fvars, tf>>

\* one iteration of `while to_expand`
BuildIterate ==
    /\ bs.pc = "loop"
    /\ bs.to_expand # << >>
    /\ LET top == bs.to_expand[Len(bs.to_expand)]
           o == top[1]
           nid == top[2]
           popped == [bs EXCEPT !.to_expand = Pop(@)]
           entered == [popped EXCEPT !.enumerated = Append(@, nid)]
       IN IF nid \in bs.expanded
          THEN bs' = popped
          ELSE IF DictReadRaises(heap[o])
          THEN bs' = [popped EXCEPT !.pc = "raised"]
          ELSE bs' = [ExpandMembers(entered, nid, safe_iter_members(heap[o]), 1)
                        EXCEPT !.expanded = @ \cup {nid}]
    /\ UNCHANGED <<heap, include_private, fvars, tf>>

(***************************************************************************)
(* build_summary (__init__.py): the bounded-depth walk.  It shares         *)
(* classify_value, safe_iter_members, is_public_name and get_node_id.      *)
(***************************************************************************)
Frame(o, depth, nid) == [o |-> o, depth |-> depth, nid |-> nid, i |-> 1]

\* walk with the depth test `depth > max_depth`
WalkEnter_expands_at_max_depth(st, o, depth) ==
    LET g == get_node_id(st, o, classify_value(heap[o]))
    IN IF depth > st.max_depth
       THEN [st |-> g.st, nid |-> g.nid, went |-> "returned"]
       ELSE IF DictReadRaises(heap[o])
       THEN [st |-> [g.st EXCEPT !.pc = "raised", !.stack = << >>],
             nid |-> g.nid, went |-> "raised"]
       ELSE [st |-> [g.st EXCEPT !.stack = Append(@, Frame(o, depth, g.nid)),
                                 !.enumerated = Append(@, g.nid)],
             nid |-> g.nid, went |-> "loop"]

\* the call walk(obj, depth) for an obj that is not eager, up to its loop: the
\* locals afterwards, the id, and how the call went on: it returned at the
\* depth test, safe_iter_members raised, or it is in its loop
WalkEnter(st, o, depth) ==
    LET g == get_node_id(st, o, classify_value(heap[o]))
    IN IF depth >= st.max_depth
       THEN [st |-> g.st, nid |-> g.nid, went |-> "returned"]
       ELSE IF DictReadRaises(heap[o])
       THEN [st |-> [g.st EXCEPT !.pc = "raised", !.stack = << >>],
             nid |-> g.nid, went |-> "raised"]
       ELSE [st |-> [g.st EXCEPT !.stack = Append(@, Frame(o, depth, g.nid)),
                                 !.enumerated = Append(@, g.nid)],
             nid |-> g.nid, went |-> "loop"]

\* the member the top walk call is at
TopFrame == bs.stack[Len(bs.stack)]

TopMembers == safe_iter_members(heap[TopFrame.o])

\* child_id = walk(...) returned to the call at stack position k:
\* node.children[name] = child_id, and its loop goes on
WalkAssign(st, k, child_id) ==
    LET f == st.stack[k]
        name == safe_iter_members(heap[f.o])[f.i][1]
    IN [st EXCEPT !.nodes[f.nid + 1].children = SetChild(@, name, child_id),
                  !.stack[k].i = @ + 1]

\* root_id = walk(root_obj, 0); walk raises AssertionError for an eager root,
\* and classify_value's own exception goes through it
WalkStart ==
    /\ bs.pc = "start"
    /\ bs.variant = "recursive"
    /\ IF classify_value(heap[1]) \in {"Exception", "eager"}
       THEN bs' = [bs EXCEPT !.pc = "raised"]
       ELSE LET g == WalkEnter(bs, 1, 0)
            IN bs' = IF g.went = "raised" THEN g.st
                     ELSE [g.st EXCEPT !.pc = "walk", !.root_id = g.nid]
    /\ UNCHANGED <<heap, include_private, fvars, tf>>

\* one pass of the for loop of the innermost walk call
WalkMember ==
    /\ bs.pc = "walk"
    /\ bs.stack # << >>
    /\ TopFrame.i <= Len(TopMembers)
    /\ LET k == Len(bs.stack)
           name == TopMembers[TopFrame.i][1]
           val == TopMembers[TopFrame.i][2]
       IN IF ~IsStr(name) \/ ~is_public_name(name, include_private)
          THEN bs' = [bs EXCEPT !.stack[k].i = @ + 1]
          ELSE IF classify_value(heap[val]) \in {"Exception", "eager"}
          THEN bs' = [bs EXCEPT !.nodes[TopFrame.nid + 1].eager = @ \cup {name},
                                !.stack[k].i = @ + 1]
          ELSE LET g == WalkEnter(bs, val, TopFrame.depth + 1)
               IN bs' = IF g.went = "returned"
                        THEN WalkAssign(g.st, k, g.nid)
                        ELSE g.st
    /\ UNCHANGED <<heap, include_private, fvars, tf>>

\* the innermost walk call ends its loop and returns nid to its caller
WalkReturn ==
    /\ bs.pc = "walk"
    /\ bs.stack # << >>
    /\ TopFrame.i > Len(TopMembers)
    /\ LET k == Len(bs.stack)
           popped == [bs EXCEPT !.stack = SubSeq(@, 1, k - 1)]
       IN bs' = IF k = 1 THEN popped ELSE WalkAssign(popped, k - 1, TopFrame.nid)
    /\ UNCHANGED <<heap, include_private, fvars, tf>>

\* the loop, or the outermost walk, has ended; the nodes are converted and returned
BuildReturn ==
    /\ \/ bs.pc = "loop" /\ bs.to_expand = << >>
       \/ bs.pc = "walk" /\ bs.stack = << >>
    /\ bs' = [bs EXCEPT !.pc = "done", !.out = Serialize(bs)]
    /\ UNCHANGED <<heap, include_private, fvars, tf>>

BuildNext ==
    \/ BuildStart
    \/ BuildIterate
    \/ WalkStart
    \/ WalkMember
    \/ WalkReturn
    \/ BuildReturn

BuildSpec == BuildInit /\ [][BuildNext]_vars

\* build_summary is one sequential call: it keeps running while it has a step
BuildLive == BuildSpec /\ WF_vars(BuildNext)

(***************************************************************************)
(* The facade with explicit child modules (spec section 4.5).              *)
(***************************************************************************)
\* real resolution if none happened yet, then the chain on what it gave
ResolveChain(t, op, chain) ==
    LET t1 == IF t.state = "Unresolved"
              THEN [t EXCEPT !.state = IF t.env = "absent" THEN "Shim" ELSE "Real",
                             !.log = Append(@, [kind |-> "resolve", path |-> << >>])]
              ELSE t
        forced == {t1.log[i].path : i \in {j \in DOMAIN t1.log : t1.log[j].kind = "force"}}
    IN  [t1 EXCEPT !.last = [op |-> op, chain |-> chain,
                             out |-> IF t1.state = "Shim" THEN "shim"
                                     ELSE RealChain(t1.paths, forced, chain)]]

\* an Intermediate Namespace for `chain` is handed out; nothing is imported
Intermediate(t, op, chain) ==
    [t EXCEPT !.held = @ \cup {chain},
              !.last = [op |-> op, chain |-> chain, out |-> "intermediate"]]

\* attribute access on the facade
TrieFacade_getattr(t, name) ==
    IF t.state = "Unresolved" /\ <<name>> \in TrieNodes(t.paths)
    THEN Intermediate(t, "facade_getattr", <<name>>)
    ELSE ResolveChain(t, "facade_getattr", <<name>>)

IntermediateNamespace_getattr_no_force_load(t, path, name) ==
    LET chain == Append(path, name)
    IN  IF t.state = "Unresolved" /\ chain \in TrieNodes(t.paths)
                                  /\ ~Tagged(t.paths, chain)
        THEN Intermediate(t, "intermediate_getattr", chain)
        ELSE ResolveChain(t, "intermediate_getattr", chain)

\* attribute access on the Intermediate Namespace that carries `path`
IntermediateNamespace_getattr(t, path, name) ==
    LET chain == Append(path, name)
    IN  IF t.state # "Unresolved"
        THEN ResolveChain(t, "intermediate_getattr", chain)
        ELSE IF Tagged(t.paths, chain)
        THEN IF t.env = "present"
             THEN ResolveChain([t EXCEPT !.log = Append(@, [kind |-> "force",
                                                            path |-> chain])],
                               "intermediate_getattr", chain)
             ELSE [t EXCEPT !.last = [op |-> "intermediate_getattr",
                                      chain |-> chain, out |-> "raised"]]
        ELSE IF chain \in TrieNodes(t.paths)
        THEN Intermediate(t, "intermediate_getattr", chain)
        ELSE ResolveChain(t, "intermediate_getattr", chain)

TrieInit ==
    /\ heap = NoHeap
    /\ include_private = FALSE
    /\ bs = [BuildEntry(NoHeap, "iterative", 0) EXCEPT !.pc = "idle"]
    /\ \E paths \in SUBSET ChildPaths, env \in Environments :
          tf = TrieFacade(paths, env)
    /\ summary = [root |-> 0, nodes |-> [s \in {"0"} |-> SumNode("ns")]]
    /\ loaded = FALSE
    /\ obj = None
    /\ rt = FALSE
    /\ memo = [s \in {"0"} |-> NoRef]
    /\ objs = << >>
    /\ result = Res("init", NoRef, "", "none", "return", None, {})

TrieFacadeGetattr(name) ==
    /\ tf' = TrieFacade_getattr(tf, name)
    /\ UNCHANGED <<fvars, bvars>>

IntermediateGetattr(path, name) ==
    /\ path \in tf.held
    /\ tf' = IntermediateNamespace_getattr(tf, path, name)
    /\ UNCHANGED <<fvars, bvars>>

TrieNext ==
    \/ \E name \in TrieNames : TrieFacadeGetattr(name)
    \/ \E path \in TrieNodes(ChildPaths), name \in TrieNames :
          IntermediateGetattr(path, name)

TrieSpec == TrieInit /\ [][TrieNext]_vars

(***************************************************************************)
(* Claims.                                                                 *)
(***************************************************************************)
\* the last operation was facade.name
LastFacadeGetattr == result.op = "facade_getattr"

\* the last operation was p.name on the proxy result.on
LastProxyGetattr(cls) ==
    /\ result.op = "proxy_getattr"
    /\ objs[result.on].cls = cls

NodeOf(r) == summary.nodes[objs[r].sid]

\* C1: when import_module fails for any reason other than the guarded module
\* being absent, the attribute access raises that exact failure, and no shim
\* runtime is built and the facade stays unresolved.
C1_OtherFailuresPropagate ==
    (LastFacadeGetattr /\ result.imp \in ImportOutcomes \ {"found", "absent"})
        => /\ result.out = "raise"
           /\ result.val = ImportRaises(result.imp)
           /\ ~rt
           /\ ~loaded

\* C2: when import_module fails because the guarded module is absent, the
\* facade has built the runtime, its resolved object is the proxy memoized for
\* the graph's root node, and the access returned or raised what the lookup
\* of the requested name on that root proxy does.
C2_AbsentResolvesToRootShim ==
    (LastFacadeGetattr /\ result.imp = "absent")
        => /\ rt
           /\ loaded
           /\ obj = ProxyVal(memo[Str(summary.root)])
           /\ objs[obj.ref].sid = Str(summary.root)
           /\ objs[obj.ref].cls = summary.nodes[Str(summary.root)].kind
           /\ LET g == Proxy_getattr(memo, objs, obj.ref, result.name)
              IN result.out = g.out /\ result.val = g.val

C2_Witness ==
    /\ LastFacadeGetattr
    /\ result.imp = "absent"
    /\ result.out = "return"
    /\ result.val.tag = "proxy"
    /\ obj.tag = "proxy"

\* the resolved object is permanent and import_module is not called again
ResolutionIsTerminal ==
    /\ loaded'
    /\ obj' = obj
    /\ result'.imp = "none"

\* this step is facade.name and it returns or raises what getattr(_obj, name) does
DelegatesToResolved ==
    LET g == Getattr(memo, objs, obj, result'.name)
    IN result'.out = g.out /\ result'.val = g.val

\* C3 as claimed: once _loaded is true the resolved object never changes,
\* import_module is never called again, and every later attribute access on
\* the facade delegates to the resolved object.
C3_TerminalAllNames ==
    [][loaded => /\ ResolutionIsTerminal
                 /\ (result'.op = "facade_getattr" => DelegatesToResolved)]_vars

\* C3 amended: once _loaded is true the resolved object never changes,
\* import_module is never called again, and every later attribute access for a
\* name that ordinary lookup does not find on the facade itself delegates to
\* the resolved object.
C3_Terminal ==
    [][loaded => /\ ResolutionIsTerminal
                 /\ (result'.op = "facade_getattr"
                        /\ result'.name \notin LazyModuleProxyAttrs
                            => DelegatesToResolved)]_vars

C3_Witness ==
    /\ loaded
    /\ LastFacadeGetattr
    /\ result.imp = "none"
    /\ result.name \notin LazyModuleProxyAttrs
    /\ result.out = "return"

\* the last access returned or raised what the real module's attribute lookup does
ReturnsRealAttribute ==
    LET g == Real_getattr(memo, objs, result.name)
    IN /\ result.out = g.out
       /\ result.val = g.val
       /\ result.val.tag # "MissingDependencyError"

\* C4 as claimed: when the real module resolved, every attribute access on the
\* facade, for every name, gives the real object's attribute of that name and
\* never a MissingDependencyError.
C4_RealAllNames ==
    (LastFacadeGetattr /\ obj = RealModule) => ReturnsRealAttribute

\* C4 amended: when the real module resolved, every attribute access on the
\* facade for a name that ordinary lookup does not find on the facade itself
\* gives the real object's attribute of that name and never a
\* MissingDependencyError.
C4_Real ==
    (LastFacadeGetattr /\ obj = RealModule /\ result.name \notin LazyModuleProxyAttrs)
        => ReturnsRealAttribute

C4_Witness ==
    /\ LastFacadeGetattr
    /\ obj = RealModule
    /\ result.name \notin LazyModuleProxyAttrs
    /\ result.val = RealAttr(result.name)

\* the three cases of a Namespace proxy's lookup of result.name
NamespaceLookupCases ==
    LET node == NodeOf(result.on)
        name == result.name
    IN /\ name \in node.eager
           => result.out = "raise" /\ result.val = missing_dep_error(ModName)
       /\ name \notin node.eager \cup DOMAIN node.children
           => result.out = "raise" /\ result.val = AttributeError(name)
       /\ name \in DOMAIN node.children
           => /\ result.out = "return"
              /\ memo[Str(node.children[name])] # NoRef
              /\ result.val = ProxyVal(memo[Str(node.children[name])])

\* C5 as claimed: on a Namespace proxy, for any name: an eager name raises
\* MissingDependencyError, a name in neither set raises AttributeError, a
\* child name returns resolve(children[name]).
C5_NamespaceAllNames == LastProxyGetattr("ns") => NamespaceLookupCases

\* C5 amended: on a Namespace proxy, for any name that ordinary lookup does
\* not find on the proxy itself: an eager name raises MissingDependencyError,
\* a name in neither set raises AttributeError, a child name returns
\* resolve(children[name]).
C5_Namespace ==
    (LastProxyGetattr("ns") /\ result.name \notin ShimNamespaceAttrs)
        => NamespaceLookupCases

C5_Witness ==
    /\ LastProxyGetattr("ns")
    /\ result.name \in NodeOf(result.on).eager \ ShimNamespaceAttrs
    /\ result.val = missing_dep_error(ModName)

\* C6: every get of one runtime for the same node id returns the identical
\* object, for every node kind, and for a root whose child points back to the
\* root, the child looked up on resolve(root) is resolve(root) itself.  The
\* lookup is the one the Namespace and Type proxies are given, of a name the
\* proxy's class does not define.
C6_ResolveIdentity ==
    [][/\ \A s \in DOMAIN memo : memo[s] # NoRef => memo'[s] = memo[s]
       /\ result'.op = "rt_get" => result'.val = ProxyVal(memo'[result'.name])
       /\ LET root == summary.nodes[Str(summary.root)]
              name == result'.name
          IN (/\ result'.op = "proxy_getattr"
              /\ result'.on = memo[Str(summary.root)]
              /\ root.kind \in {"ns", "type"}
              /\ name \notin ShimNamespaceAttrs \cup MissingTypeAttrs
              /\ name \in DOMAIN root.children
              /\ root.children[name] = summary.root)
                 => /\ result'.out = "return"
                    /\ result'.val = ProxyVal(result'.on)]_vars

\* C7: a lookup on a Type proxy of a name its class does not define returns
\* resolve(children[name]) for a child name of the node and raises
\* MissingDependencyError for an eager name of the node.
C7_TypeDelegatesToNamespace ==
    (LastProxyGetattr("type") /\ result.name \notin MissingTypeAttrs)
        => LET node == NodeOf(result.on)
               name == result.name
           IN /\ name \in node.eager
                  => result.out = "raise" /\ result.val = missing_dep_error(ModName)
              /\ name \in DOMAIN node.children
                  => /\ result.out = "return"
                     /\ result.val = ProxyVal(memo[Str(node.children[name])])

\* C8: calling a Callable proxy, with any arguments, raises the
\* MissingDependencyError naming the module identifier and changes neither the
\* memo table, the proxies, the graph nor the facade's state.
C8_CallableAlwaysRaises ==
    [][(result'.op = "proxy_call" /\ objs[result'.on].cls = "fn")
          => /\ result'.out = "raise"
             /\ result'.val = missing_dep_error(ModName)
             /\ UNCHANGED <<summary, loaded, obj, rt, memo, objs>>]_vars

C8_Witness ==
    /\ result.op = "proxy_call"
    /\ objs[result.on].cls = "fn"
    /\ result.args # << >>
    /\ result.out = "raise"

\* C9: constructing a Type proxy, with any arguments, raises
\* MissingDependencyError and yields no instance.
C9_TypeConstructionRaises ==
    (result.op = "proxy_call" /\ objs[result.on].cls = "type")
        => /\ result.out = "raise"
           /\ result.val.tag = "MissingDependencyError"
           /\ result.val.tag # "instance"

C9_Witness ==
    /\ result.op = "proxy_call"
    /\ objs[result.on].cls = "type"
    /\ result.args # << >>
    /\ result.out = "raise"

\* the walked hierarchy has an object that is a member of a member of itself
IndirectCycle ==
    \E i, j \in DOMAIN heap :
        /\ i # j
        /\ \E k \in 1 .. Len(heap[i].members) : heap[i].members[k][2] = j
        /\ \E k \in 1 .. Len(heap[j].members) : heap[j].members[k][2] = i

\* C10: build_summary terminates on every finite hierarchy, cyclic or with
\* shared objects: it returns with an empty worklist, or it ends by raising
\* (at once for a root that is no namespace, type or callable), and no walk
\* call is left unfinished.
C10_BuildTerminates ==
    <>(\/ bs.pc = "done" /\ bs.to_expand = << >> /\ bs.stack = << >>
       \/ bs.pc = "raised" /\ bs.stack = << >>)

C10_Witness ==
    /\ bs.pc = "done"
    /\ bs.variant = "iterative"
    /\ IndirectCycle
    /\ Len(bs.nodes) = 2
    /\ bs.expanded = {0, 1}

(***************************************************************************)
(* Claims about the summary graph build_summary returns.                   *)
(***************************************************************************)
\* the positions in o's __dict__ of the members the traversal goes into: a
\* string name the privacy test lets through, bound to a namespace, a type or
\* a callable
FollowedAt(o) ==
    LET ms == safe_iter_members(heap[o])
    IN {i \in 1 .. Len(ms) :
           /\ IsStr(ms[i][1])
           /\ is_public_name(ms[i][1], include_private)
           /\ classify_value(heap[ms[i][2]]) \in {"ns", "type", "fn"}}

Followed(o) == {safe_iter_members(heap[o])[i][2] : i \in FollowedAt(o)}

\* the objects at most d followed members away from the objects of S
RECURSIVE WithinDepth(_, _)
WithinDepth(S, d) ==
    IF d = 0 THEN S
    ELSE WithinDepth(S \cup UNION {Followed(o) : o \in S}, d - 1)

\* how far the traversal goes: the worklist build has no limit (no path
\* without a repeated object is longer than the hierarchy), the walk stops
\* at max_depth
DepthPolicy == IF bs.variant = "iterative" THEN Len(heap) ELSE bs.max_depth

Reachable == WithinDepth({1}, DepthPolicy)

\* the objects that have been given a node id
Identified == {o \in DOMAIN heap : bs.objid_to_nodeid[o] # NoRef}

\* C11: when build_summary has returned, the graph has as many nodes as
\* there are distinct objects reachable from the root within the traversal's
\* depth: exactly the reachable objects have an id, no two share one, and the
\* graph's node keys are these ids.
C11_NodeCountIsReachableCount ==
    bs.pc = "done" =>
        /\ Cardinality(DOMAIN bs.out.nodes) = Cardinality(Reachable)
        /\ Identified = Reachable
        /\ \A o1, o2 \in Reachable :
               o1 # o2 => bs.objid_to_nodeid[o1] # bs.objid_to_nodeid[o2]
        /\ DOMAIN bs.out.nodes = {Str(bs.objid_to_nodeid[o]) : o \in Reachable}

\* a returned build of a root that reaches one other object under two names
C11_Witness ==
    /\ bs.pc = "done"
    /\ \E i, j \in FollowedAt(1) :
           /\ i # j
           /\ heap[1].members[i][2] = heap[1].members[j][2]
           /\ heap[1].members[i][2] # 1
    /\ Cardinality(DOMAIN bs.out.nodes) = 2

NoRepeat(seq) == \A i, j \in 1 .. Len(seq) : i # j => seq[i] # seq[j]

Elems(seq) == {seq[i] : i \in 1 .. Len(seq)}

\* C12: the worklist build_summary pushes each node onto the worklist at
\* most once and reads each node's members at most once at every point of
\* the build, and when it returns every node of the graph has been pushed
\* once and has had its members read once.
C12_OncePerIdentity ==
    bs.variant = "iterative" =>
        /\ NoRepeat(bs.pushed)
        /\ NoRepeat(bs.enumerated)
        /\ Elems(bs.enumerated) \subseteq Elems(bs.pushed)
        /\ bs.pc = "done" =>
               /\ Elems(bs.pushed) = 0 .. Len(bs.nodes) - 1
               /\ Elems(bs.enumerated) = 0 .. Len(bs.nodes) - 1

\* a returned worklist build of two objects that are members of each other
C12_Witness ==
    /\ bs.pc = "done"
    /\ bs.variant = "iterative"
    /\ 2 \in Followed(1)
    /\ 1 \in Followed(2)
    /\ Len(bs.pushed) = 2
    /\ Len(bs.enumerated) = 2

\* the object that node id nid was allocated for
ObjectOf(nid) == CHOOSE o \in DOMAIN heap : bs.objid_to_nodeid[o] = nid

\* C13: in the graph build_summary returns, for every node whose members
\* were read and every member of its object that has a string name passing
\* the privacy test and is a namespace, a type or a callable, children[name]
\* is the one id of the member's object, and that id is a node of the graph.
C13_ChildIsTheMembersNode ==
    bs.pc = "done" =>
        \A nid \in Elems(bs.enumerated) :
            \A i \in FollowedAt(ObjectOf(nid)) :
                LET m == safe_iter_members(heap[ObjectOf(nid)])[i]
                    children == bs.out.nodes[Str(nid)].children
                IN /\ m[1] \in DOMAIN children
                   /\ children[m[1]] = bs.objid_to_nodeid[m[2]]
                   /\ Str(children[m[1]]) \in DOMAIN bs.out.nodes

\* a root that is its own member "a": nodes[root].children["a"] is root
C13_Witness ==
    /\ bs.pc = "done"
    /\ \E i \in FollowedAt(1) : heap[1].members[i] = <<"a", 1>>
    /\ bs.out.root = 0
    /\ "a" \in DOMAIN bs.out.nodes["0"].children
    /\ bs.out.nodes["0"].children["a"] = 0

\* C14: in every node, at every point of the build and in the returned
\* graph, no name is both an eager name and a key of children.
C14_EagerDisjointFromChildren ==
    /\ \A n \in 1 .. Len(bs.nodes) :
           bs.nodes[n].eager \cap DOMAIN bs.nodes[n].children = {}
    /\ bs.pc = "done" =>
           \A sid \in DOMAIN bs.out.nodes :
               Elems(bs.out.nodes[sid].eager) \cap Elems(bs.out.nodes[sid].keys) = {}

\* a returned graph whose root node has both an eager name and a child
C14_Witness ==
    /\ bs.pc = "done"
    /\ bs.out.nodes["0"].eager # << >>
    /\ bs.out.nodes["0"].keys # << >>

\* the root object alone makes build_summary raise: it is not a namespace, a
\* type or a callable, its classification raises, or its __dict__ cannot be read
RootFails ==
    \/ classify_value(heap[1]) \in {"Exception", "eager"}
    \/ DictReadRaises(heap[1]) /\ (bs.variant = "recursive" => bs.max_depth > 0)

\* C15: a failure while classifying or inspecting one member stays with that
\* member: build_summary raises only for a root object that fails by itself,
\* and in a returned graph every member with a string name passing the
\* privacy test whose classification raised is an eager name of its node.
C15_MemberFailureNeverAborts ==
    /\ bs.pc = "raised" => RootFails
    /\ bs.pc = "done" =>
           \A nid \in Elems(bs.enumerated) :
               LET ms == safe_iter_members(heap[ObjectOf(nid)])
               IN \A i \in 1 .. Len(ms) :
                      (/\ IsStr(ms[i][1])
                       /\ is_public_name(ms[i][1], include_private)
                       /\ isinstance_raises(heap[ms[i][2]]))
                      => ms[i][1] \in Elems(bs.out.nodes[Str(nid)].eager)

\* the names a node records, as children keys or as eager names
Recorded(n) == DOMAIN bs.nodes[n].children \cup bs.nodes[n].eager

\* the objects reachable from the objects of S through members whose names
\* are strings that do not begin with "_"
RECURSIVE PublicReach(_)
PublicReach(S) ==
    LET more == UNION {{safe_iter_members(heap[o])[i][2] :
                          i \in {j \in 1 .. Len(safe_iter_members(heap[o])) :
                                    LET name == safe_iter_members(heap[o])[j][1]
                                    IN IsStr(name) /\ ~StartsWithUnderscore(name)}}
                       : o \in S}
    IN IF more \subseteq S THEN S ELSE PublicReach(S \cup more)

\* C16: no node ever records a name that is not a string; with
\* include_private false no node records a name beginning with "_" and only
\* objects reachable through other names get a node; with include_private
\* true, in the returned graph every node whose members were read records
\* every string name of its object's __dict__.
C16_PrivacyFilter ==
    /\ \A n \in 1 .. Len(bs.nodes) : \A x \in Recorded(n) : IsStr(x)
    /\ ~include_private =>
           /\ \A n \in 1 .. Len(bs.nodes) :
                  \A x \in Recorded(n) : ~StartsWithUnderscore(x)
           /\ Identified \subseteq PublicReach({1})
    /\ (include_private /\ bs.pc = "done") =>
           \A nid \in Elems(bs.enumerated) :
               LET ms == safe_iter_members(heap[ObjectOf(nid)])
               IN \A i \in 1 .. Len(ms) :
                      IsStr(ms[i][1]) => ms[i][1] \in Recorded(nid + 1)

\* a returned build without include_private of a root whose only way to a
\* second module is the member "_p"
C16_Witness ==
    /\ bs.pc = "done"
    /\ ~include_private
    /\ Len(heap) = 2
    /\ heap[2].pykind = "module"
    /\ \E i \in 1 .. Len(heap[1].members) : heap[1].members[i] = <<"_p", 2>>
    /\ bs.enumerated # << >>
    /\ Len(bs.nodes) = 1

(***************************************************************************)
(* Claims about the facade's listing.                                      *)
(***************************************************************************)
RootNode == summary.nodes[Str(summary.root)]

C18_RoundTripIdempotent ==
    bs.pc = "done" => Dump(Load(Dump(bs.out))) = Dump(bs.out)

\* a returned graph of two nodes whose root has two children, found in its
\* __dict__ in an order that is not the sorted one
C18_Witness ==
    /\ bs.pc = "done"
    /\ Len(bs.out.order) = 2
    /\ Len(bs.out.nodes["0"].keys) = 2
    /\ heap[1].members[1][1] = "a"
    /\ Len(Dump(bs.out).nodes) = 2

(***************************************************************************)
(* Claims about classification.                                            *)
(***************************************************************************)
\* what the rules, taken in their order, make of each kind of object
ExpectedKind(pykind) ==
    CASE pykind \in {"module", "broken_module"} -> "ns"
      [] pykind = "class" -> "type"
      [] pykind = "builtin_class" -> "eager"
      [] pykind \in {"function", "builtin", "method_descriptor"} -> "fn"
      [] pykind = "callable_object" -> "eager"
      [] pykind = "value" -> "eager"

\* C19: in the graph build_summary returns, the root and every member that
\* was looked at (string name passing the privacy test, classification not
\* raising) is what the rules in priority order say: a module is a "ns"
\* node, a class a "type" node unless it is a class of builtins, a function,
\* a builtin or a method descriptor a "fn" node; a class of builtins, any
\* other callable and any other value is an eager name only, and no such
\* object has a node.
C19_ClassifiedByPriority ==
    bs.pc = "done" =>
        /\ bs.out.nodes[Str(bs.out.root)].kind = ExpectedKind(heap[1].pykind)
        /\ \A o \in Identified : ExpectedKind(heap[o].pykind) # "eager"
        /\ \A nid \in Elems(bs.enumerated) :
               LET ms == safe_iter_members(heap[ObjectOf(nid)])
                   node == bs.out.nodes[Str(nid)]
               IN \A i \in 1 .. Len(ms) :
                      (/\ IsStr(ms[i][1])
                       /\ include_private \/ ~StartsWithUnderscore(ms[i][1])
                       /\ heap[ms[i][2]].pykind # "unclassifiable")
                      => IF ExpectedKind(heap[ms[i][2]].pykind) = "eager"
                         THEN /\ ms[i][1] \in Elems(node.eager)
                              /\ ms[i][1] \notin DOMAIN node.children
                         ELSE /\ ms[i][1] \in DOMAIN node.children
                              /\ ms[i][1] \notin Elems(node.eager)
                              /\ bs.out.nodes[Str(node.children[ms[i][1]])].kind
                                     = ExpectedKind(heap[ms[i][2]].pykind)

\* a returned graph of a module whose member "a" is a class, itself callable,
\* and whose member "_p" is that class too
C19_Witness ==
    /\ bs.pc = "done"
    /\ Len(heap) = 2
    /\ heap[2].pykind = "class"
    /\ heap[1].members = <<<<"a", 2>>, <<"_p", 2>>>>
    /\ "a" \in DOMAIN bs.out.nodes["0"].children
    /\ bs.out.nodes["0"].children["a"] = 1
    /\ bs.out.nodes["1"].kind = "type"

(***************************************************************************)
(* Claims about the bounded-depth build_summary.                           *)
(***************************************************************************)
\* the objects whose members the finished walk has read
Enumerated == {o \in Identified : bs.objid_to_nodeid[o] \in Elems(bs.enumerated)}

NoSharedId ==
    \A o1, o2 \in Identified :
        o1 # o2 => bs.objid_to_nodeid[o1] # bs.objid_to_nodeid[o2]

\* C20 as stated: when the bounded-depth build_summary has returned, every
\* object reached at a depth not exceeding max_depth has had its members
\* enumerated, and every object has one id however often it was met.
C20_ExpandedUpToMaxDepth ==
    (bs.pc = "done" /\ bs.variant = "recursive") =>
        /\ WithinDepth({1}, bs.max_depth) \subseteq Enumerated
        /\ NoSharedId

\* C20: when the bounded-depth build_summary has returned, the objects whose
\* members were enumerated are those reached at a depth below max_depth; the
\* objects reached at depth max_depth have a node but their members were not
\* read; and every object has one id however often it was met.
C20_ExpandedBelowMaxDepth ==
    (bs.pc = "done" /\ bs.variant = "recursive") =>
        /\ Enumerated = IF bs.max_depth = 0 THEN {}
                        ELSE WithinDepth({1}, bs.max_depth - 1)
        /\ Identified = WithinDepth({1}, bs.max_depth)
        /\ NoSharedId

\* a returned walk with max_depth 1 over two modules that are members of each
\* other: both have a node, the root alone was expanded
C20_Witness ==
    /\ bs.pc = "done"
    /\ bs.variant = "recursive"
    /\ bs.max_depth = 1
    /\ 2 \in Followed(1)
    /\ 1 \in Followed(2)
    /\ Len(bs.nodes) = 2
    /\ Enumerated = {1}

\* C21: while the facade is Unresolved, an attribute access on an
\* Intermediate Namespace whose accumulated chain reaches a trie node tagged
\* with a concrete explicit child path, and which returns, has force-loaded
\* exactly that path, then resolved the facade, and gives the whole chain as
\* looked up on the real module; one whose chain reaches an untagged trie node
\* gives a deeper Intermediate Namespace for the chain and imports nothing.
C21_TaggedForceLoadsThenResolves ==
    [][(tf' # tf /\ tf'.last.op = "intermediate_getattr" /\ tf.state = "Unresolved") =>
          LET chain == tf'.last.chain
          IN  /\ (Tagged(tf.paths, chain) /\ tf'.last.out # "raised") =>
                    /\ tf'.log = tf.log \o <<[kind |-> "force", path |-> chain],
                                             [kind |-> "resolve", path |-> << >>]>>
                    /\ tf'.state = "Real"
                    /\ tf'.last.out = "value"
              /\ (chain \in TrieNodes(tf.paths) /\ ~Tagged(tf.paths, chain)) =>
                    /\ tf'.last.out = "intermediate"
                    /\ chain \in tf'.held
                    /\ tf'.log = tf.log
                    /\ tf'.state = "Unresolved"]_vars

\* facade.deep.sub with "deep.sub" the one explicit child: facade.deep gave an
\* Intermediate Namespace, and .sub on it force-loaded deep.sub before resolving
C21_Witness ==
    /\ tf.paths = {<<"deep", "sub">>}
    /\ <<"deep">> \in tf.held
    /\ tf.last = [op |-> "intermediate_getattr", chain |-> <<"deep", "sub">>,
                  out |-> "value"]
    /\ Len(tf.log) = 2
    /\ tf.log[1] = [kind |-> "force", path |-> <<"deep", "sub">>]
    /\ tf.state = "Real"

\* the ids given out so far, after the step
IdsAfter == {bs'.objid_to_nodeid[o] : o \in DOMAIN heap} \ {NoRef}

\* the objects a step gives an id
NewlyIdentified == {o \in DOMAIN heap : bs.objid_to_nodeid[o] = NoRef
                                        /\ bs'.objid_to_nodeid[o] # NoRef}

\* where the loop over the members of object o first meets object m under a
\* name it does not skip
FirstAt(o, m) ==
    LET ms == safe_iter_members(heap[o])
        at == {j \in 1 .. Len(ms) : /\ ms[j][2] = m
                                     /\ IsStr(ms[j][1])
                                     /\ is_public_name(ms[j][1], include_private)}
    IN CHOOSE j \in at : \A k \in at : j <= k

\* C22: in one build_summary call the node ids are integers given in the
\* order of first visit: an object keeps the id it has, the root's id is 0,
\* the ids given out are 0 .. n-1 with no id given to two objects, an object
\* that gets its id in a step gets one above every id given before, and of
\* two objects first met in one pass over an object's members the one met
\* first has the smaller id.
C22_IdsInFirstVisitOrder ==
    [][/\ \A o \in Identified : bs'.objid_to_nodeid[o] = bs.objid_to_nodeid[o]
       /\ bs'.objid_to_nodeid[1] \in {NoRef, 0}
       /\ bs'.root_id \in {NoRef, 0}
       /\ IdsAfter = 0 .. bs'.next_id - 1
       /\ \A o1, o2 \in DOMAIN heap :
             (o1 # o2 /\ bs'.objid_to_nodeid[o1] # NoRef) =>
                 bs'.objid_to_nodeid[o1] # bs'.objid_to_nodeid[o2]
       /\ \A o \in NewlyIdentified :
             \A e \in Identified : bs'.objid_to_nodeid[o] > bs.objid_to_nodeid[e]
       /\ \A m1, m2 \in NewlyIdentified :
             (m1 # m2 /\ bs.pc = "loop") =>
                 LET o == bs.to_expand[Len(bs.to_expand)][1]
                 IN (FirstAt(o, m1) < FirstAt(o, m2)) <=>
                        (bs'.objid_to_nodeid[m1] < bs'.objid_to_nodeid[m2])]_vars

\* a returned build over two objects: the root has id 0, the object found
\* among its members has id 1, and the graph's keys are "0" and "1"
C22_Witness ==
    /\ bs.pc = "done"
    /\ bs.objid_to_nodeid[1] = 0
    /\ 2 \in DOMAIN heap
    /\ bs.objid_to_nodeid[2] = 1
    /\ bs.next_id = 2
    /\ DOMAIN bs.out.nodes = {"0", "1"}

\* C23: in the bounded-depth build_summary no node has its members
\* enumerated twice: a walk call that reaches an object whose node was
\* already expanded returns the id without reading the object's members.
C23_ExpandedNotWalkedAgain ==
    bs.variant = "recursive" => NoRepeat(bs.enumerated)

\* C24: a newly constructed facade is Unresolved (_loaded false, _obj None,
\* no runtime), and dir(facade) and repr(facade) call no import and leave
\* _loaded, _obj, the runtime and its proxies as they were; so a facade on
\* which no attribute was accessed is still Unresolved.
C24_OnlyAttributeAccessResolves ==
    /\ ~loaded /\ obj = None /\ ~rt
    /\ [][result'.op \in {"facade_dir", "facade_repr"} =>
             /\ result'.imp = "none"
             /\ UNCHANGED <<summary, loaded, obj, rt, memo, objs>>]_vars

\* repr(facade) has just answered for a facade that is still Unresolved
C24_Witness ==
    /\ result.op = "facade_repr"
    /\ result.val = Val("str", NoRef, "LazyModuleProxy")
    /\ ~loaded
    /\ obj = None
    /\ ~rt

\* _ShimRuntime.get finds node_id in the nodes table: self._nodes[sid] does
\* not raise KeyError
NodePresent(nodes, node_id) == node_id # NoRef /\ Str(node_id) \in DOMAIN nodes

\* C25: the graph build_summary returns is closed: its root id is a key of
\* its nodes table, and so is every value of every node's children, so get
\* finds a node for the root and for every id reached by following children.
C25_ReturnedGraphIsClosed ==
    bs.pc = "done" =>
        /\ NodePresent(bs.out.nodes, bs.out.root)
        /\ \A sid \in DOMAIN bs.out.nodes :
              \A name \in DOMAIN bs.out.nodes[sid].children :
                  NodePresent(bs.out.nodes, bs.out.nodes[sid].children[name])

\* a returned graph of two nodes that are children of each other
C25_Witness ==
    /\ bs.pc = "done"
    /\ DOMAIN bs.out.nodes = {"0", "1"}
    /\ "a" \in DOMAIN bs.out.nodes["0"].children
    /\ bs.out.nodes["0"].children["a"] = 1
    /\ "a" \in DOMAIN bs.out.nodes["1"].children
    /\ bs.out.nodes["1"].children["a"] = 0

\* the last operation was an attribute access on the facade that raised what
\* import_module raised
RaisedOutOfResolution(r) ==
    /\ r.op = "facade_getattr"
    /\ r.imp \in ImportOutcomes \ {"found"}
    /\ r.out = "raise"
    /\ r.val = ImportRaises(r.imp)

\* C26: an attribute access on an Unresolved facade that raises what the
\* import raised leaves _loaded false, _obj None, no runtime and no proxy
\* stored; and the attribute access that follows it, for a name that
\* __getattr__ serves, calls the import again.
C26_FailedResolutionIsRetried ==
    [][/\ (~loaded /\ RaisedOutOfResolution(result')) =>
             /\ ~loaded'
             /\ obj' = None
             /\ ~rt'
             /\ UNCHANGED <<summary, obj, rt, memo, objs>>
       /\ (RaisedOutOfResolution(result) /\ result'.op = "facade_getattr"
              /\ result'.name \notin LazyModuleProxyAttrs) =>
             result'.imp \in ImportOutcomes]_vars

\* an attribute access has just raised the ImportError of the guarded
\* module's own import, and the facade is Unresolved as before
C26_Witness ==
    /\ RaisedOutOfResolution(result)
    /\ result.imp = "import_error"
    /\ result.name = "a"
    /\ ~loaded
    /\ obj = None
    /\ ~rt
====
